---- MODULE Spec2Model ----
(***************************************************************************)
(* A model of the zlines container library (src/zlines/zline_api.c): the   *)
(* writer (create, add_line, flushBlock, close), the reader (read,         *)
(* line_length, get_line, get_line2, loadLine, readBlock) and the codec    *)
(* adapter (compressToFile, decompressFromFile) over a model of the file.  *)
(*                                                                         *)
(* Sizes are scaled: DEFAULT_BLOCK_SIZE (4 MiB in the source) is 3 bytes   *)
(* and FILE_BUFFER_SIZE (8 KiB in the source) is 2 bytes, so that blocks   *)
(* larger than MAX_IN_MEMORY_BLOCK and compressed streams both smaller and *)
(* larger than one file buffer occur within a handful of short lines.      *)
(* INT_MAX is 1000000.  All other sizes (header, directory entry, u64) are  *)
(* those of the source.                                                    *)
(*                                                                         *)
(* The library is built with assert() active (nothing in the repository    *)
(* defines NDEBUG).  A failed assert(), a null dereference and undefined    *)
(* behaviour end the process; the variable crash records which one.        *)
(***************************************************************************)
EXTENDS Integers, Sequences, FiniteSets, TLC

VARIABLES
  zf,      \* the fields of struct ZlineFile (zline_internal_api.h)
  obj,     \* "null" (no object yet), "live", "freed" (after ZlineFile_deallocate)
  pos,     \* the cursor of zf->fp, what ftell() returns
  file,    \* the file on disk: header lines and the extents written after it
  ret,     \* the last API call: its name, arguments and result
  added,   \* the lines the current file was built from, in add_line order
  built,   \* ZlineFile_close of the object that built the file has returned
  crash,   \* "none", or how the process ended
  faults   \* number of I/O failures injected so far

vars == <<zf, obj, pos, file, ret, added, built, crash, faults>>

(***************************************************************************)
(* Program constants                                                       *)
(***************************************************************************)
DEFAULT_BLOCK_SIZE == 3
MAX_IN_MEMORY_BLOCK == DEFAULT_BLOCK_SIZE
INITIAL_BLOCK_CAPACITY == 100
HEADER_SIZE == 256
FILE_BUFFER_SIZE == 2
INT_MAX == 1000000
ZLINE_MODE_CREATE == 1
ZLINE_MODE_READ == 2
DO_COMPRESS_INDEX == 1
SIZEOF_U64 == 8
SIZEOF_ZlineIndexLine == 16
SIZEOF_ZlineIndexBlock == 24

(***************************************************************************)
(* Bounds of the model                                                     *)
(***************************************************************************)
MaxLines == 2      \* add_line calls accepted per build
MaxFaults == 1     \* I/O failures injected per behaviour
MaxDstLen == 2     \* largest destination buffer passed to get_line2
MaxOffset == 1     \* largest slice offset passed to get_line2
MaxBuildLines == 3 \* add_line calls accepted per build where nothing is queried

\* the lines a caller may add: empty, short, exactly DEFAULT_BLOCK_SIZE - 1,
\* and two lines longer than MAX_IN_MEMORY_BLOCK (one compressible)
LineSet == { <<>>, <<1>>, <<2, 3>>, <<1, 1, 1, 1>>, <<1, 2, 1, 2>> }
\* the lines added where I/O calls may fail: empty, one whose compressed
\* form is larger than a file buffer, one longer than MAX_IN_MEMORY_BLOCK
FaultLineSet == { <<>>, <<2, 3>>, <<1, 1, 1, 1>> }
\* block_size arguments of ZlineFile_create2
BlockSizeSet == { 0, 1, 2, INT_MAX + 1 }

MIN(a, b) == IF a < b THEN a ELSE b
MAX(a, b) == IF a > b THEN a ELSE b

\* F applied to the value of v, which is computed once: the local
\* variables of the C functions
Let(v, F(_)) == CHOOSE r \in { F(b) : b \in {v} } : TRUE

\* what a read of bytes that were never written as that type yields
GARBAGE == 999

(***************************************************************************)
(* The codec (zstd), by its interface: a compressed stream is a sequence   *)
(* of bytes; units[k] is the number of decompressed bytes that become      *)
(* available once the decoder has consumed compressed byte k.  ents is the *)
(* decompressed payload, in elements of esz bytes.                          *)
(***************************************************************************)
RECURSIVE RunEnd(_, _)
\* the index of the last byte of the run that starts at byte k
RunEnd(data, k) ==
  IF k < Len(data) /\ data[k + 1] = data[k] THEN RunEnd(data, k + 1) ELSE k

RECURSIVE RunsFrom(_, _)
RunsFrom(data, k) ==
  IF k > Len(data) THEN <<>>
  ELSE Let(RunEnd(data, k), LAMBDA e : <<e - k + 1>> \o RunsFrom(data, e + 1))

\* run lengths of a byte string: the compressed form of line content
Runs(data) == RunsFrom(data, 1)

Zeros(n) == [k \in 1..n |-> 0]

\* ZSTD_compressStream/ZSTD_endStream on line content: a frame header byte
\* and one byte per run
CompressContent(data) ==
  [units |-> <<0>> \o Runs(data), ents |-> data, esz |-> 1]

\* compressed size of an array (a one-block frame): a frame header and six
\* bytes for each distinct element
ZArraySize(ents) == 8 + 6 * Cardinality({ ents[k] : k \in 1..Len(ents) })

\* ZSTD_compress on an array: a single block, decodable only once all of
\* its bytes have been consumed
CompressArray(ents, esz) ==
  [units |-> Zeros(ZArraySize(ents) - 1) \o <<esz * Len(ents)>>,
   ents |-> ents, esz |-> esz]

\* compressed size of a line directory: as an array, and four bytes more
\* for each entry whose offset is not zero, so that of two directories of
\* the same length one can shrink enough to be stored compressed and the
\* other not
ZLinesSize(lines) ==
  ZArraySize(lines)
    + 4 * Cardinality({ k \in 1..Len(lines) : lines[k].offset > 0 })

\* ZSTD_compress on the line directory of a block
CompressLines(lines) ==
  [units |-> Zeros(ZLinesSize(lines) - 1)
               \o <<SIZEOF_ZlineIndexLine * Len(lines)>>,
   ents |-> lines, esz |-> SIZEOF_ZlineIndexLine]

(***************************************************************************)
(* The file: header lines at [0, HEADER_SIZE) and extents after it.        *)
(***************************************************************************)
NoStream == [units |-> <<>>, ents |-> <<>>, esz |-> 1]

Extent(off, size, kind, num, st) ==
  [off |-> off, size |-> size, kind |-> kind, num |-> num, st |-> st]

\* fwrite of one item at the cursor
fwrite(w, size, kind, num, st) ==
  [w EXCEPT !.file.ext = Append(@, Extent(w.pos, size, kind, num, st)),
            !.pos = @ + size]

\* what is found where nothing was written
NoExtent == Extent(-1, 0, "none", <<>>, NoStream)

\* the item last written at offset p
ExtentAt(f, p) ==
  Let({ k \in 1..Len(f.ext) : f.ext[k].off = p }, LAMBDA ks :
      IF ks = {} THEN NoExtent
      ELSE f.ext[CHOOSE k \in ks : \A j \in ks : j <= k])

\* getFileSize
getFileSize(f) ==
  Let({ f.ext[k].off + f.ext[k].size : k \in 1..Len(f.ext) }, LAMBDA ends :
      IF f.hdr = <<>> THEN 0
      ELSE IF ends = {} THEN HEADER_SIZE
      ELSE CHOOSE e \in ends : \A d \in ends : d <= e)

(***************************************************************************)
(* The world an API call runs in: w.zf, w.pos, w.file, w.crash as the      *)
(* variables; w.fail is the I/O call that fails during this API call (at   *)
(* its first execution), w.rv the value returned by the last internal call *)
(***************************************************************************)
NoFail == <<"none", "none">>

Crash(w, how) == [w EXCEPT !.crash = how]
Return(w, v) == [w EXCEPT !.rv = v]
Fails(w, site) == w.fail = site
\* the injected failure has happened
Fired(w) == [w EXCEPT !.fail = NoFail]

ZeroBlock ==
  [alloc |-> FALSE, idx |-> 0, offset |-> 0, first_line |-> 0,
   lines |-> <<>>, content |-> <<>>, content_capacity |-> 0,
   line_index_size |-> 0]

\* calloc(1, sizeof(struct ZlineFile))
ZeroFile ==
  [mode |-> 0, is_index_compressed |-> 0,
   write_block |-> ZeroBlock, read_block |-> ZeroBlock,
   line_count |-> 0, data_offset |-> 0, index_offset |-> 0,
   blocks |-> <<>>, blocks_size |-> 0, block_starts |-> <<>>,
   max_line_len |-> 0,
   fseek_flag |-> 0, compress_stream |-> FALSE, decompress_stream |-> FALSE,
   fp_open |-> FALSE]

\* a ZlineIndexBlock; compressed_length_x is kept as its two parts, the low
\* 63 bits (len) and bit 63 (flag)
IndexBlock(off, clen, flag, dlen) ==
  [offset |-> off, compressed_length_x |-> [len |-> clen, flag |-> flag],
   decompressed_length |-> dlen]
getBlockCompressedLen(block) == block.compressed_length_x.len
isBlockLineIndexCompressed(block) == block.compressed_length_x.flag = 1

IndexLine(off, len) == [offset |-> off, length |-> len]

createBlock(content_capacity) ==
  [ZeroBlock EXCEPT !.alloc = TRUE,
     !.content_capacity = IF content_capacity <= 0
                          THEN INITIAL_BLOCK_CAPACITY ELSE content_capacity]

(***************************************************************************)
(* Header                                                                  *)
(***************************************************************************)
HLine(word, num, str) == [word |-> word, num |-> num, str |-> str]

\* the text of writeHeader where the maxlen line is given zf->line_count
HeaderText_maxlenIsLines(z) ==
  << HLine("zline v2.0", 0, ""),
     HLine("data_offset", z.data_offset, ""),
     HLine("index_offset", z.index_offset, ""),
     HLine("lines", z.line_count, ""),
     HLine("blocks", z.blocks_size, ""),
     HLine("maxlen", z.line_count, ""),
     HLine("alg", 0, "fzstd") >>
  \o (IF z.is_index_compressed # 0 THEN << HLine("zi", 0, "") >> ELSE << >>)

\* the text writeHeader formats, one record per header line
HeaderText(z) ==
  << HLine("zline v2.0", 0, ""),
     HLine("data_offset", z.data_offset, ""),
     HLine("index_offset", z.index_offset, ""),
     HLine("lines", z.line_count, ""),
     HLine("blocks", z.blocks_size, ""),
     HLine("maxlen", z.max_line_len, ""),
     HLine("alg", 0, "fzstd") >>
  \o (IF z.is_index_compressed # 0 THEN << HLine("zi", 0, "") >> ELSE << >>)

writeHeader(w) ==
  IF w.crash # "none" THEN w
  ELSE IF Fails(w, <<"hdr", "seek">>) THEN Return(Fired(w), -1)
  ELSE IF Fails(w, <<"hdr", "write">>)
       THEN Return([Fired(w) EXCEPT !.pos = 0], -1)
  ELSE IF HEADER_SIZE # w.zf.data_offset
       THEN Crash([w EXCEPT !.file.hdr = HeaderText(w.zf),
                            !.pos = HEADER_SIZE], "assert")
  ELSE Return([w EXCEPT !.file.hdr = HeaderText(w.zf), !.pos = HEADER_SIZE], 0)

\* the num of a header line on which no number follows the name
NoNumber == -1

\* the names that are followed by a number
NumberFields == { "data_offset", "index_offset", "lines", "blocks", "maxlen" }

\* one "name value" line of the header, parsed into z; rv = 1 on error
readHeaderLine(z, l) ==
  \* 1 != sscanf(buf+pos, "%" SCNu64, ...)
  IF l.word \in NumberFields /\ l.num = NoNumber THEN [z |-> z, rv |-> 1]
  ELSE IF l.word = "data_offset" THEN [z |-> [z EXCEPT !.data_offset = l.num], rv |-> 0]
  ELSE IF l.word = "index_offset"
    THEN [z |-> [z EXCEPT !.index_offset = l.num], rv |-> 0]
  ELSE IF l.word = "lines" THEN [z |-> [z EXCEPT !.line_count = l.num], rv |-> 0]
  ELSE IF l.word = "blocks" THEN [z |-> [z EXCEPT !.blocks_size = l.num], rv |-> 0]
  ELSE IF l.word = "maxlen" THEN [z |-> [z EXCEPT !.max_line_len = l.num], rv |-> 0]
  ELSE IF l.word = "alg" THEN [z |-> z, rv |-> IF l.str # "fzstd" THEN 1 ELSE 0]
  ELSE IF l.word = "zi" THEN [z |-> [z EXCEPT !.is_index_compressed = 1], rv |-> 0]
  ELSE [z |-> z, rv |-> 1]

RECURSIVE readHeaderLines(_, _, _)
\* the while loop of readHeader, from header line k on; rv = 1 on error
readHeaderLines(z, h, k) ==
  IF k > Len(h) THEN [z |-> z, rv |-> 0]
  ELSE Let(readHeaderLine(z, h[k]), LAMBDA r :
           IF r.rv # 0 THEN r ELSE readHeaderLines(r.z, h, k + 1))

\* readHeader without its check for an incomplete header
readHeader_noIncompleteCheck(z, h) ==
  IF h = <<>> \/ h[1].word # "zline v2.0"
  THEN [z |-> [z EXCEPT !.is_index_compressed = 0], rv |-> 1]
  ELSE readHeaderLines([z EXCEPT !.is_index_compressed = 0], h, 2)

\* readHeader over the header lines h of the file
readHeader(z, h) ==
  IF h = <<>> \/ h[1].word # "zline v2.0"
  THEN [z |-> [z EXCEPT !.is_index_compressed = 0], rv |-> 1]
  ELSE Let(readHeaderLines([z EXCEPT !.is_index_compressed = 0], h, 2),
           LAMBDA r :
           IF r.rv # 0 THEN r
           ELSE IF \/ r.z.data_offset = 0
                   \/ r.z.index_offset = 0
                   \/ r.z.line_count = 0
                   \/ r.z.blocks_size = 0
                THEN [z |-> r.z, rv |-> 1]
           ELSE [z |-> r.z, rv |-> 0])

(***************************************************************************)
(* Writer                                                                  *)
(***************************************************************************)
\* ZlineFile_deallocate: everything is released
ZlineFile_deallocate(w) == [w EXCEPT !.zf = ZeroFile, !.obj = "freed"]

\* the body of ZlineFile_create2 with the header written last, once the
\* block array holds its first entry
create2Body_headerLast(w, block_size) ==
  Let([w EXCEPT !.obj = "live",
                !.zf = [ZeroFile EXCEPT
                          !.mode = ZLINE_MODE_CREATE,
                          !.is_index_compressed = DO_COMPRESS_INDEX,
                          !.data_offset = HEADER_SIZE,
                          !.write_block = createBlock(block_size)]],
      LAMBDA w1 :
  IF Fails(w1, <<"fopen", "open">>)
    THEN Return(ZlineFile_deallocate(Fired(w1)), 0)
  ELSE
    Let(writeHeader([w1 EXCEPT !.zf.fp_open = TRUE, !.pos = 0,
                               !.file = [hdr |-> <<>>, ext |-> <<>>],
                               !.zf.blocks = << IndexBlock(0, 0, 0, 0) >>,
                               !.zf.blocks_size = 1]),
        LAMBDA w2 :
    IF w2.crash # "none" THEN w2
    ELSE IF w2.rv # 0 THEN Return(ZlineFile_deallocate(w2), 0)
    ELSE Return([w2 EXCEPT
           !.zf.block_starts = << >>,
           !.zf.write_block.offset = HEADER_SIZE,
           !.zf.compress_stream = TRUE,
           !.zf.decompress_stream = FALSE], 1)))

\* the body of ZlineFile_create2 after the argument check
create2Body(w, block_size) ==
  Let([w EXCEPT !.obj = "live",
                !.zf = [ZeroFile EXCEPT
                          !.mode = ZLINE_MODE_CREATE,
                          !.is_index_compressed = DO_COMPRESS_INDEX,
                          !.data_offset = HEADER_SIZE,
                          !.write_block = createBlock(block_size)]],
      LAMBDA w1 :
  IF Fails(w1, <<"fopen", "open">>)
    THEN Return(ZlineFile_deallocate(Fired(w1)), 0)
  ELSE
    \* fopen(output_filename, "w+b") truncates the file
    Let(writeHeader([w1 EXCEPT !.zf.fp_open = TRUE, !.pos = 0,
                               !.file = [hdr |-> <<>>, ext |-> <<>>]]),
        LAMBDA w2 :
    IF w2.crash # "none" THEN w2
    ELSE IF w2.rv # 0 THEN Return(ZlineFile_deallocate(w2), 0)
    ELSE Return([w2 EXCEPT
           !.zf.blocks = << IndexBlock(0, 0, 0, 0) >>,
           !.zf.blocks_size = 1,
           !.zf.block_starts = << >>,
           !.zf.write_block.offset = HEADER_SIZE,
           !.zf.compress_stream = TRUE,
           !.zf.decompress_stream = FALSE], 1)))

\* ZlineFile_create2; rv = 1 for a file object, 0 for NULL
ZlineFile_create2(w, block_size) ==
  IF block_size > INT_MAX THEN Return(w, 0)
  ELSE create2Body(w, IF block_size = 0 THEN DEFAULT_BLOCK_SIZE ELSE block_size)

\* addLineInternal where the offset of the line is not taken from
\* b->content_size
addLineInternal_offsetZero(w, length) ==
  IF w.crash # "none" THEN w
  ELSE
    LET b == w.zf.write_block
        line == IndexLine(0, length)
        first == Len(b.lines) = 0
    IN  [w EXCEPT
          !.zf.write_block.lines = Append(@, line),
          !.zf.write_block.first_line = IF first THEN w.zf.line_count ELSE @,
          !.zf.block_starts = IF first /\ b.idx > 0
                              THEN [@ EXCEPT ![b.idx] = w.zf.line_count] ELSE @,
          !.zf.line_count = @ + 1,
          !.zf.max_line_len = MAX(length, @)]

\* addLineInternal without "b->first_line = zf->line_count"
addLineInternal_noFirstLine(w, length) ==
  IF w.crash # "none" THEN w
  ELSE
    LET b == w.zf.write_block
        line == IndexLine(Len(b.content), length)
        first == Len(b.lines) = 0
    IN  [w EXCEPT
          !.zf.write_block.lines = Append(@, line),
          !.zf.block_starts = IF first /\ b.idx > 0
                              THEN [@ EXCEPT ![b.idx] = w.zf.line_count] ELSE @,
          !.zf.line_count = @ + 1,
          !.zf.max_line_len = MAX(length, @)]

addLineInternal(w, length) ==
  IF w.crash # "none" THEN w
  ELSE
    LET b == w.zf.write_block
        line == IndexLine(Len(b.content), length)
        first == Len(b.lines) = 0
    IN  [w EXCEPT
          !.zf.write_block.lines = Append(@, line),
          !.zf.write_block.first_line = IF first THEN w.zf.line_count ELSE @,
          !.zf.block_starts = IF first /\ b.idx > 0
                              THEN [@ EXCEPT ![b.idx] = w.zf.line_count] ELSE @,
          !.zf.line_count = @ + 1,
          !.zf.max_line_len = MAX(length, @)]

\* useCompressedLineIndex: [use, len]
useCompressedLineIndex(lines) ==
  IF Len(lines) < 2 THEN [use |-> FALSE, len |-> 0]
  ELSE IF ZLinesSize(lines) + SIZEOF_U64 < Len(lines) * SIZEOF_ZlineIndexLine
    THEN [use |-> TRUE, len |-> ZLinesSize(lines)]
  ELSE [use |-> FALSE, len |-> 0]

\* compressToFile(zf, input, input_len): st is the compressed form of the
\* input; rv is the number of bytes written, or -1.  The output buffer is
\* written whenever it is full (checked) and once more at the end (unchecked).
compressToFile(w, st, input_len, site) ==
  IF w.crash # "none" THEN w
  ELSE IF input_len < 0 THEN Crash(w, "ub")
  ELSE IF input_len = 0 THEN Return(w, 0)
  ELSE
    LET n == Len(st.units)
        full == ((n - 1) \div FILE_BUFFER_SIZE) * FILE_BUFFER_SIZE
    IN  IF full > 0 /\ Fails(w, <<site, "full">>) THEN Return(Fired(w), -1)
        ELSE IF Fails(w, <<site, "last">>)
          THEN IF full = 0 THEN Return(Fired(w), 0)
               ELSE Return(fwrite(Fired(w), full, "stream", <<>>,
                              [st EXCEPT !.units = SubSeq(st.units, 1, full)]),
                           full)
        ELSE Return(fwrite(w, n, "stream", <<>>, st), n)

\* a[i] = v on a C array kept as a sequence (i counted from 1)
SetAt(a, i, v) ==
  IF i = Len(a) + 1 THEN Append(a, v) ELSE [a EXCEPT ![i] = v]

RawLines(lines) ==
  [units |-> <<>>, ents |-> lines, esz |-> SIZEOF_ZlineIndexLine]

\* "write the line index" of flushBlock without
\* "compressed_line_index_flag = LINE_INDEX_COMPRESSED_FLAG"
writeLineIndex_noFlag(w, lines) ==
  Let(useCompressedLineIndex(lines), LAMBDA u :
  IF Len(lines) = 0 THEN [w |-> w, len |-> 0, flag |-> 0]
  ELSE IF u.use
    THEN Let(fwrite(w, SIZEOF_U64, "u64", <<u.len>>, NoStream), LAMBDA w1 :
             [w |-> fwrite(w1, u.len, "stream", <<>>,
                           CompressLines(lines)),
              len |-> SIZEOF_U64 + u.len, flag |-> 0])
  ELSE [w |-> fwrite(w, SIZEOF_ZlineIndexLine * Len(lines), "lines", <<>>,
                     RawLines(lines)),
        len |-> SIZEOF_ZlineIndexLine * Len(lines), flag |-> 0])

\* "write the line index" of flushBlock: [w, len, flag], the bytes written
\* and whether they are compressed
writeLineIndex(w, lines) ==
  Let(useCompressedLineIndex(lines), LAMBDA u :
  IF Len(lines) = 0 THEN [w |-> w, len |-> 0, flag |-> 0]
  ELSE IF u.use
    THEN Let(fwrite(w, SIZEOF_U64, "u64", <<u.len>>, NoStream), LAMBDA w1 :
             [w |-> fwrite(w1, u.len, "stream", <<>>,
                           CompressLines(lines)),
              len |-> SIZEOF_U64 + u.len, flag |-> 1])
  ELSE [w |-> fwrite(w, SIZEOF_ZlineIndexLine * Len(lines), "lines", <<>>,
                     RawLines(lines)),
        len |-> SIZEOF_ZlineIndexLine * Len(lines), flag |-> 0])

\* the end of flushBlock, once the content is written: w3 is the world
\* after compressToFile, x the line index as written
flushBlockEnd(w3, b, n, x) ==
  LET compressed_len == w3.rv
      next_block_start == b.offset + x.len + compressed_len
      w4 == [w3 EXCEPT
              !.zf.blocks[n].compressed_length_x =
                  [len |-> compressed_len, flag |-> x.flag]]
  IN  IF w3.crash # "none" THEN w3
      ELSE IF compressed_len < 0 THEN Return(w3, 1)
      ELSE IF ~(compressed_len > 0) THEN Crash(w3, "assert")
      ELSE IF w3.pos # next_block_start THEN Crash(w4, "assert")
      ELSE Return([w4 EXCEPT
             !.zf.blocks = Append(@, IndexBlock(next_block_start, 0, 0, 0)),
             !.zf.blocks_size = n + 1,
             !.zf.block_starts = SetAt(@, n, w3.zf.line_count),
             !.zf.write_block.offset = next_block_start,
             !.zf.write_block.idx = n,
             !.zf.write_block.lines = <<>>,
             !.zf.write_block.content = <<>>], 1)

\* flushBlock; rv = 1 when it returns the write block, 0 when it returns NULL
flushBlock(w) ==
  IF w.crash # "none" THEN w
  ELSE
    LET b == w.zf.write_block
        n == w.zf.blocks_size
    IN
    IF ~b.alloc \/ ~(b.offset > 0) THEN Crash(w, "assert")
    ELSE IF Len(b.content) = 0 THEN Return(w, 1)
    ELSE
      Let([w EXCEPT
             !.zf.blocks[n].offset = b.offset,
             !.zf.blocks[n].decompressed_length = Len(b.content),
             !.zf.block_starts = IF b.idx > 0
                                 THEN SetAt(@, b.idx, b.first_line) ELSE @],
          LAMBDA w1 :
      IF w1.pos # b.offset THEN Crash(w1, "assert")
      ELSE IF Len(b.lines) > 0 /\ Fails(w1, <<"dir", "write">>)
        THEN Return(Fired(w1), 0)
      ELSE
        Let(writeLineIndex(w1, b.lines), LAMBDA x :
        Let(compressToFile(x.w, CompressContent(b.content), Len(b.content),
                           "blk"),
            LAMBDA w3 : flushBlockEnd(w3, b, n, x))))

\* the check of the mode of ZlineFile_add_line2 against the other mode
notForWriting_otherMode(z) == z.mode # ZLINE_MODE_READ

\* ZlineFile_add_line2 without its check of the mode
notForWriting_unchecked(z) == FALSE

\* "if (zf->mode != ZLINE_MODE_CREATE)" of ZlineFile_add_line2
notForWriting(z) == z.mode # ZLINE_MODE_CREATE

\* the bytes a buffer holds where nothing was copied into it
Stale(n) == [k \in 1..n |-> GARBAGE]

\* ZlineFile_add_line2 after "b = flushBlock(zf)" where the line does not fit
\* (w1.rv = 0: flushBlock returned NULL)
addLineStore(w1, line) ==
  Let(addLineInternal(w1, Len(line)), LAMBDA w2 :
  LET b == w2.zf.write_block
      length == Len(line)
  IN
  IF w1.crash # "none" THEN w1
  \* b = flushBlock(zf) was NULL: b->content_capacity dereferences it
  ELSE IF w1.rv = 0 THEN Crash(w2, "segv")
  ELSE IF length <= b.content_capacity
    THEN \* memcpy(b->content + b->content_size, line, length)
         IF Len(b.content) + length > b.content_capacity
         THEN Crash(w2, "ub")
         ELSE Return([w2 EXCEPT !.zf.write_block.content = @ \o line], 0)
  ELSE IF Len(b.content) # 0 THEN Crash(w2, "assert")
  ELSE
    Let(flushBlock([w2 EXCEPT !.zf.write_block.content = line]), LAMBDA w3 :
        IF w3.crash # "none" THEN w3
        \* b->content = content_buffer_saved; content_size is as flushBlock
        \* left it
        ELSE Return([w3 EXCEPT !.zf.write_block.content = Stale(Len(@))], 0)))

\* ZlineFile_add_line2 (and ZlineFile_add_line, with length = strlen(line))
ZlineFile_add_line2(w, line) ==
  IF notForWriting(w.zf) THEN Return(w, -1)
  ELSE IF ~w.zf.write_block.alloc THEN Crash(w, "assert")
  ELSE IF Len(w.zf.write_block.content) + Len(line)
            > w.zf.write_block.content_capacity
    THEN Let(flushBlock(w), LAMBDA w1 : addLineStore(w1, line))
  ELSE addLineStore(Return(w, 1), line)

\* "write compressed block index" of ZlineFile_close, then the header; the
\* results of the fseek back and of the two fwrite calls are not looked at
closeIndexCompressed(w2, index_offset) ==
  LET z == w2.zf
      starts == SubSeq(z.block_starts, 1, z.blocks_size - 1)
  IN
  IF Fails(w2, <<"idx", "seek">>) THEN Fired(w2)
  ELSE
    \* fseek(zf->fp, sizeof(u64) * 2, SEEK_CUR)
    Let(compressToFile([w2 EXCEPT !.pos = @ + 2 * SIZEOF_U64],
                       CompressArray(z.blocks, SIZEOF_ZlineIndexBlock),
                       SIZEOF_ZlineIndexBlock * z.blocks_size, "idxb"),
        LAMBDA w4 :
    Let(compressToFile(w4, CompressArray(starts, SIZEOF_U64),
                       SIZEOF_U64 * (z.blocks_size - 1), "idxs"),
        LAMBDA w5 :
    IF w5.crash # "none" THEN w5
    ELSE Let(fwrite([w5 EXCEPT !.pos = index_offset], 2 * SIZEOF_U64,
                    "u64", <<w4.rv, w5.rv>>, NoStream),
             LAMBDA w6 : writeHeader(w6))))

\* "write uncompressed block index" of ZlineFile_close, then the header
closeIndexRaw(w2) ==
  LET z == w2.zf
      starts == SubSeq(z.block_starts, 1, z.blocks_size - 1)
  IN
  IF z.blocks_size = 0 THEN Crash(w2, "ub")
  ELSE
    Let(fwrite(w2, SIZEOF_ZlineIndexBlock * z.blocks_size, "blocks", <<>>,
               [units |-> <<>>, ents |-> z.blocks,
                esz |-> SIZEOF_ZlineIndexBlock]),
        LAMBDA r1 :
    IF z.blocks_size - 1 > 0
    THEN Let(fwrite(r1, SIZEOF_U64 * (z.blocks_size - 1), "starts", <<>>,
                    [units |-> <<>>, ents |-> starts, esz |-> SIZEOF_U64]),
             LAMBDA r2 : writeHeader(r2))
    ELSE writeHeader(r1))

\* the part of ZlineFile_close that writes the index and the header
closeIndex(w) ==
  LET current_pos == w.zf.write_block.offset
      pad_size == (8 - (current_pos % 8)) % 8
      w1 == [w EXCEPT !.zf.index_offset = current_pos + pad_size]
  IN
  IF w.pos # current_pos THEN Crash(w, "assert")
  ELSE IF pad_size > 0 /\ Fails(w1, <<"pad", "write">>) THEN Fired(w1)
  ELSE
    Let(IF pad_size > 0 THEN fwrite(w1, pad_size, "pad", <<>>, NoStream) ELSE w1,
        LAMBDA w2 :
        IF w2.zf.is_index_compressed # 0
        THEN closeIndexCompressed(w2, current_pos + pad_size)
        ELSE closeIndexRaw(w2))

\* ZlineFile_close on a live file object
ZlineFile_close(w) ==
  IF w.zf.mode = ZLINE_MODE_READ THEN ZlineFile_deallocate(w)
  ELSE IF \/ ~w.zf.write_block.alloc
          \/ w.zf.write_block.idx # w.zf.blocks_size - 1
    THEN Crash(w, "assert")
  ELSE
    Let(IF Len(w.zf.write_block.content) > 0 THEN flushBlock(w) ELSE w,
        LAMBDA w1 :
    IF w1.crash # "none" THEN w1
    ELSE
      Let(closeIndex([w1 EXCEPT
                       !.zf.blocks_size = @ - 1,
                       !.zf.blocks = SubSeq(@, 1, w1.zf.blocks_size - 1)]),
          LAMBDA w3 :
          IF w3.crash # "none" THEN w3 ELSE ZlineFile_deallocate(w3)))

(***************************************************************************)
(* Reader                                                                  *)
(***************************************************************************)
RECURSIVE ZSTD_decompressStream(_, _, _)
\* one call of ZSTD_decompressStream: d.c compressed bytes consumed so far,
\* d.pend decoded bytes not yet handed out, d.inb unconsumed bytes in the
\* input buffer, space free bytes in the output buffer; d.last counts the
\* bytes produced by this call
ZSTD_decompressStream(d, units, space) ==
  IF d.pend > 0 /\ space > 0
    THEN Let(MIN(d.pend, space), LAMBDA m :
         Let([d EXCEPT !.pend = @ - m, !.last = @ + m], LAMBDA d1 :
             ZSTD_decompressStream(d1, units, space - m)))
  ELSE IF d.pend = 0 /\ space > 0 /\ d.inb > 0
    THEN Let([d EXCEPT !.c = @ + 1, !.pend = units[d.c + 1], !.inb = @ - 1],
             LAMBDA d1 : ZSTD_decompressStream(d1, units, space))
  ELSE d

\* the body shared by the two loops of decompressFromFile: refill the input
\* buffer from the file, then decompress into an output buffer with space
\* free bytes
fillAndDecode(d, units, space) ==
  Let(MIN(FILE_BUFFER_SIZE - d.inb, d.rem), LAMBDA to_read :
      ZSTD_decompressStream(
        [d EXCEPT !.rem = @ - to_read, !.pos = @ + to_read,
                  !.inb = @ + to_read, !.last = 0],
        units, space))

RECURSIVE skipLoop(_, _)
\* while (input_remaining > 0 && skip_remaining > 0)
skipLoop(d, units) ==
  IF d.rem > 0 /\ d.skip > 0
  THEN Let(fillAndDecode(d, units, MIN(FILE_BUFFER_SIZE, d.skip)), LAMBDA d1 :
       Let([d1 EXCEPT !.skip = @ - d1.last, !.junk = @ + d1.last], LAMBDA d2 :
           skipLoop(d2, units)))
  ELSE d

RECURSIVE readLoop(_, _, _)
\* while (input_remaining > 0 && outbuf.pos < outbuf.size)
readLoop(d, units, readbuf_len) ==
  IF d.rem > 0 /\ d.out < readbuf_len
  THEN Let(fillAndDecode(d, units, readbuf_len - d.out), LAMBDA d1 :
       Let([d1 EXCEPT !.out = @ + d1.last], LAMBDA d2 :
           readLoop(d2, units, readbuf_len)))
  ELSE d

\* the two loops of decompressFromFile over the stream st found at the cursor
decompressLoops(w, st, readbuf_len, compressed_len, read_offset) ==
  Let(skipLoop([rem |-> compressed_len, skip |-> read_offset, inb |-> 0,
                c |-> 0, pend |-> 0, junk |-> 0, out |-> 0, last |-> 0,
                pos |-> w.pos], st.units),
      LAMBDA d1 :
  Let(readLoop(d1, st.units, readbuf_len), LAMBDA d2 :
      [Return(w, d2.out) EXCEPT
         !.pos = d2.pos,
         !.data = SubSeq(st.ents, (d2.junk \div st.esz) + 1,
                         (d2.junk + d2.out) \div st.esz)]))

\* decompressFromFile(zf, readbuf, readbuf_len, compressed_len, read_offset):
\* rv is the number of bytes written to readbuf, w.data what was written
decompressFromFile(w, readbuf_len, compressed_len, read_offset) ==
  IF w.crash # "none" THEN w
  ELSE IF ~w.zf.decompress_stream THEN Crash(w, "assert")
  ELSE IF compressed_len = 0 THEN [Return(w, 0) EXCEPT !.data = <<>>]
  ELSE IF read_offset = 0 /\ readbuf_len <= 0
    THEN [Return(w, 0) EXCEPT !.data = <<>>]
  ELSE IF Fails(w, <<"z", "read">>)
    THEN [Return(Fired(w), 0) EXCEPT !.data = <<>>]
  ELSE IF Fails(w, <<"z", "codec">>)
    THEN [Return(Fired(w), 0) EXCEPT
            !.data = <<>>, !.pos = @ + MIN(FILE_BUFFER_SIZE, compressed_len)]
  ELSE
    Let(ExtentAt(w.file, w.pos), LAMBDA e :
        \* not the start of a compressed stream: the codec reports an error
        IF e.kind # "stream" \/ e.size # compressed_len
        THEN [Return(w, 0) EXCEPT
                !.data = <<>>, !.pos = @ + MIN(FILE_BUFFER_SIZE, compressed_len)]
        ELSE decompressLoops(w, e.st, readbuf_len, compressed_len,
                             read_offset))

\* ZlineFile_get_block_line_count
ZlineFile_get_block_line_count(z, block_idx) ==
  IF block_idx >= z.blocks_size THEN 0
  ELSE LET block_start == IF block_idx = 0 THEN 0
                          ELSE z.block_starts[block_idx]
           block_end == IF block_idx = z.blocks_size - 1 THEN z.line_count
                        ELSE z.block_starts[block_idx + 1]
       IN  block_end - block_start

RECURSIVE getLineBlockScan_noMinusOne(_, _, _)
\* the linear scan of getLineBlock with "line_idx <= zf->block_starts[i]"
getLineBlockScan_noMinusOne(z, line_idx, i) ==
  IF i < z.blocks_size - 1
  THEN IF line_idx <= z.block_starts[i + 1]
       THEN i
       ELSE getLineBlockScan_noMinusOne(z, line_idx, i + 1)
  ELSE i

RECURSIVE getLineBlockScan(_, _, _)
\* the linear scan of getLineBlock, from block i on.  The comparison is
\* unsigned: block_starts[i] - 1 wraps to the largest u64 when the entry is 0
getLineBlockScan(z, line_idx, i) ==
  IF i < z.blocks_size - 1
  THEN IF z.block_starts[i + 1] = 0 \/ line_idx <= z.block_starts[i + 1] - 1
       THEN i
       ELSE getLineBlockScan(z, line_idx, i + 1)
  ELSE i

getLineBlock(z, line_idx) ==
  IF z.blocks_size <= 1 THEN 0 ELSE getLineBlockScan(z, line_idx, 0)

\* lineInBlock: TRUE when it returns an entry, which is then LineOf
lineInBlock(block, line_idx) ==
  /\ block.alloc
  /\ Len(block.lines) > 0
  /\ line_idx >= block.first_line
  /\ line_idx < block.first_line + Len(block.lines)
LineOf(block, line_idx) == block.lines[line_idx - block.first_line + 1]

\* a line array of n entries of which none was read: what the array held
\* before, and uninitialised memory beyond that
StaleLines(old, n) ==
  [k \in 1..n |-> IF k <= Len(old) THEN old[k] ELSE IndexLine(GARBAGE, GARBAGE)]

\* "Read line index" of readBlock, compressed: rv = bytes_read, or -1 for
\* the goto fail after a short read of the compressed size
readLineIndexCompressed(w, line_bytes) ==
  IF Fails(w, <<"dir", "read">>) THEN Return(Fired(w), -1)
  ELSE
    Let(ExtentAt(w.file, w.pos), LAMBDA e :
    Let(IF e.kind = "u64" /\ Len(e.num) = 1 THEN e.num[1] ELSE GARBAGE,
        LAMBDA compressed_index_len :
    Let(decompressFromFile(
          [w EXCEPT !.pos = @ + SIZEOF_U64,
                    !.zf.read_block.line_index_size = compressed_index_len],
          line_bytes, compressed_index_len, 0),
        LAMBDA w2 :
        IF w2.crash # "none" \/ w2.rv # line_bytes THEN w2
        ELSE [w2 EXCEPT !.zf.read_block.lines = w2.data])))

\* "Read line index" of readBlock, not compressed: rv = bytes_read
readLineIndexRaw(w, line_bytes) ==
  IF Fails(w, <<"dir", "read">>)
  THEN Return([Fired(w) EXCEPT !.zf.read_block.line_index_size = line_bytes], 0)
  ELSE
    Let(ExtentAt(w.file, w.pos), LAMBDA e :
    LET avail == getFileSize(w.file) - w.pos
        bytes_read == MIN(line_bytes, MAX(avail, 0))
        stored == IF e.kind = "lines" THEN e.st.ents ELSE <<>>
    IN  [Return(w, bytes_read) EXCEPT
           !.pos = @ + bytes_read,
           !.zf.read_block.line_index_size = line_bytes,
           !.zf.read_block.lines =
              [k \in 1..Len(@) |->
                 IF k <= Len(stored) THEN stored[k]
                 ELSE IndexLine(GARBAGE, GARBAGE)]])

readLineIndex(w, block, line_bytes) ==
  IF isBlockLineIndexCompressed(block)
  THEN readLineIndexCompressed(w, line_bytes)
  ELSE readLineIndexRaw(w, line_bytes)

\* the end of readBlock where the content is decoded into memory whatever
\* its size
readBlockContent_alwaysCached(w3, block, block_line_count) ==
  IF w3.crash # "none" THEN w3
  ELSE IF w3.rv # block_line_count * SIZEOF_ZlineIndexLine THEN Return(w3, 1)
  ELSE
    Let(decompressFromFile(w3, block.decompressed_length,
                           getBlockCompressedLen(block), 0),
        LAMBDA w4 :
        IF w4.crash # "none" THEN w4
        ELSE IF w4.rv # block.decompressed_length
          THEN Return([w4 EXCEPT !.zf.read_block.content =
                         w4.data
                           \o Stale(block.decompressed_length - Len(w4.data))],
                      1)
        ELSE Return([w4 EXCEPT !.zf.read_block.content = w4.data], 0))

\* the end of readBlock: "b->content_size = block->decompressed_length" and
\* the content, which is not loaded when it is one line larger than
\* MAX_IN_MEMORY_BLOCK
readBlockContent(w3, block, block_line_count) ==
  IF w3.crash # "none" THEN w3
  ELSE IF w3.rv # block_line_count * SIZEOF_ZlineIndexLine THEN Return(w3, 1)
  ELSE IF block_line_count = 1
          /\ block.decompressed_length > MAX_IN_MEMORY_BLOCK
    THEN Return([w3 EXCEPT !.zf.read_block.content = <<>>], 0)
  ELSE
    Let(decompressFromFile(w3, block.decompressed_length,
                           getBlockCompressedLen(block), 0),
        LAMBDA w4 :
        IF w4.crash # "none" THEN w4
        ELSE IF w4.rv # block.decompressed_length
          THEN Return([w4 EXCEPT !.zf.read_block.content =
                         w4.data
                           \o Stale(block.decompressed_length - Len(w4.data))],
                      1)
        ELSE Return([w4 EXCEPT !.zf.read_block.content = w4.data], 0))

\* readBlock; rv = 0, or 1 on error
readBlock(w, block_idx) ==
  IF w.crash # "none" THEN w
  ELSE IF ~(block_idx < w.zf.blocks_size) THEN Crash(w, "assert")
  ELSE IF w.zf.read_block.alloc /\ block_idx = w.zf.read_block.idx
    THEN Return(w, 0)
  ELSE
    LET z == w.zf
        block == z.blocks[block_idx + 1]
        block_line_count == ZlineFile_get_block_line_count(z, block_idx)
        rb0 == IF ~z.read_block.alloc
               THEN createBlock(block.decompressed_length) ELSE z.read_block
    IN
    Let([w EXCEPT !.zf.decompress_stream = TRUE,
                  !.zf.fseek_flag = 1,
                  !.zf.read_block =
                     [rb0 EXCEPT
                        !.idx = block_idx,
                        !.offset = block.offset,
                        !.first_line = IF block_idx = 0 THEN 0
                                       ELSE z.block_starts[block_idx]]],
        LAMBDA w1 :
    IF Fails(w1, <<"blk", "seek">>) THEN Return(Fired(w1), 1)
    ELSE
      \* fseek, then b->lines_size = block_line_count
      Let(readLineIndex(
            [w1 EXCEPT !.pos = block.offset,
                       !.zf.read_block.lines = StaleLines(@, block_line_count)],
            block, block_line_count * SIZEOF_ZlineIndexLine),
          LAMBDA w3 : readBlockContent(w3, block, block_line_count)))

\* loadLine without "check if the line is in the write block"
loadLine_noWriteBlock(w, line_idx) ==
  IF w.crash # "none" THEN w
  ELSE IF lineInBlock(w.zf.read_block, line_idx)
    THEN [w EXCEPT !.blk = "read"]
  ELSE
    Let(readBlock(w, getLineBlock(w.zf, line_idx)), LAMBDA w1 :
        IF w1.crash # "none" THEN w1
        ELSE IF ~lineInBlock(w1.zf.read_block, line_idx)
          THEN Crash(w1, "assert")
        ELSE [w1 EXCEPT !.blk = "read"])

\* loadLine: w.blk says which block holds the line, "write" or "read"
loadLine(w, line_idx) ==
  IF w.crash # "none" THEN w
  ELSE IF /\ w.zf.mode = ZLINE_MODE_CREATE
          /\ lineInBlock(w.zf.write_block, line_idx)
    THEN [w EXCEPT !.blk = "write"]
  ELSE IF lineInBlock(w.zf.read_block, line_idx)
    THEN [w EXCEPT !.blk = "read"]
  ELSE
    \* the result of readBlock is not looked at
    Let(readBlock(w, getLineBlock(w.zf, line_idx)), LAMBDA w1 :
        IF w1.crash # "none" THEN w1
        ELSE IF ~lineInBlock(w1.zf.read_block, line_idx)
          THEN Crash(w1, "assert")
        ELSE [w1 EXCEPT !.blk = "read"])

BlockOf(w) == IF w.blk = "write" THEN w.zf.write_block ELSE w.zf.read_block

\* the range check of the reader queries, off by one
noSuchLine_offByOne(z, line_idx) == line_idx > z.line_count

\* "if (line_idx >= zf->line_count)" of the reader queries
noSuchLine(z, line_idx) == line_idx >= z.line_count

\* ZlineFile_line_length; rv = the length, or -1
ZlineFile_line_length(w, line_idx) ==
  IF noSuchLine(w.zf, line_idx) THEN Return(w, -1)
  ELSE Let(loadLine(w, line_idx), LAMBDA w1 :
           IF w1.crash # "none" THEN w1
           ELSE Return(w1, LineOf(BlockOf(w1), line_idx).length))

\* what the caller's buffer holds on return: the bytes copied to its start
\* and whether a nul follows them
Buffer(w, bytes, nul) == [w EXCEPT !.data = bytes, !.nul = nul]

\* "restore the file pointer" of ZlineFile_get_line2
restoreFilePointer(w, file_pos) ==
  IF w.zf.fseek_flag # 0 /\ file_pos # -1 THEN [w EXCEPT !.pos = file_pos] ELSE w

\* the else branch of ZlineFile_get_line2: the line was left on disk and is
\* decompressed straight to the buffer
getLineFromFile(w1, block, copy_len, offset, file_pos) ==
  LET index_block == w1.zf.blocks[block.idx + 1]
  IN
  IF \/ Len(block.lines) # 1
     \/ w1.blk # "read"
     \/ ~(w1.zf.blocks_size > block.idx)
    THEN Crash(w1, "assert")
  ELSE IF \/ index_block.offset # block.offset
          \/ isBlockLineIndexCompressed(index_block)
    THEN Crash(w1, "assert")
  ELSE
    Let(decompressFromFile(
          [w1 EXCEPT !.pos = block.offset + block.line_index_size],
          copy_len, getBlockCompressedLen(index_block), offset),
        LAMBDA w3 :
        IF w3.crash # "none" THEN w3
        \* goto fail: buf is returned as it is
        ELSE restoreFilePointer(
               Buffer(Return(w3, 1), w3.data, w3.rv = copy_len), file_pos))

\* ZlineFile_get_line2 once loadLine has found the line
getLineCopy(w1, line_idx, buf_len, offset, file_pos) ==
  LET block == BlockOf(w1)
      line == LineOf(block, line_idx)
      \* buf_len - 1 is unsigned
      copy_len == IF buf_len = 0 THEN line.length - offset
                  ELSE MIN(line.length - offset, buf_len - 1)
      from == line.offset + offset
  IN
  IF w1.crash # "none" THEN w1
  ELSE IF line.length > 0 /\ offset < line.length
    THEN
      IF buf_len = 0 THEN Crash(w1, "ub")
      ELSE IF Len(block.content) > 0
        THEN \* memcpy(buf, block->content + line->offset + offset, copy_len)
             IF from + copy_len > Len(block.content)
             THEN IF w1.ub = "crash" THEN Crash(w1, "ub")
                  ELSE restoreFilePointer(
                         Buffer(Return(w1, 1), Stale(copy_len), TRUE), file_pos)
             ELSE restoreFilePointer(
                    Buffer(Return(w1, 1),
                           SubSeq(block.content, from + 1, from + copy_len),
                           TRUE), file_pos)
      ELSE getLineFromFile(w1, block, copy_len, offset, file_pos)
  ELSE restoreFilePointer(Buffer(Return(w1, 1), <<>>, TRUE), file_pos)

\* ZlineFile_get_line2; rv = 1 when it returns buf, 0 when it returns NULL
ZlineFile_get_line2(w, line_idx, buf_len, offset) ==
  IF noSuchLine(w.zf, line_idx) THEN Buffer(Return(w, 0), <<>>, FALSE)
  ELSE
    LET create == w.zf.mode = ZLINE_MODE_CREATE
        file_pos == IF create THEN w.zf.write_block.offset ELSE -1
    IN
    IF create /\ (~w.zf.write_block.alloc \/ file_pos # w.pos)
      THEN Crash([w EXCEPT !.zf.fseek_flag = 0], "assert")
    ELSE Let(loadLine([w EXCEPT !.zf.fseek_flag = 0], line_idx), LAMBDA w1 :
             getLineCopy(w1, line_idx, buf_len, offset, file_pos))

\* ZlineFile_get_line; rv = 1 when it returns the allocated buffer, 0 for NULL
ZlineFile_get_line(w, line_idx) ==
  Let(ZlineFile_line_length(w, line_idx), LAMBDA w1 :
      IF w1.crash # "none" THEN w1
      ELSE IF w1.rv < 0 THEN Buffer(Return(w1, 0), <<>>, FALSE)
      ELSE ZlineFile_get_line2(w1, line_idx, w1.rv + 1, 0))

\* ZlineFile_get_line_details; rv = 0, or -1; w.data = <<length, offset, block_idx>>
ZlineFile_get_line_details(w, line_idx) ==
  IF noSuchLine(w.zf, line_idx) THEN Return(w, -1)
  ELSE Let(loadLine(w, line_idx), LAMBDA w1 :
           IF w1.crash # "none" THEN w1
           ELSE [Return(w1, 0) EXCEPT
                   !.data = <<LineOf(BlockOf(w1), line_idx).length,
                              LineOf(BlockOf(w1), line_idx).offset,
                              getLineBlock(w.zf, line_idx)>>])

\* a failed ZlineFile_create2 or ZlineFile_read: the object is released and
\* the caller holds NULL
Fail(w) == [Return(ZlineFile_deallocate(w), 0) EXCEPT !.obj = "null"]

RECURSIVE MaxOver(_, _, _)
\* the scan of ZlineFile_read for the largest content
MaxOver(blocks, k, m) ==
  IF k > Len(blocks) THEN m
  ELSE MaxOver(blocks, k + 1, MAX(m, blocks[k].decompressed_length))

\* the two decompressFromFile calls of "read the index", compressed
readIndexArrays(w1, compressed_sizes) ==
  LET z == w1.zf
  IN
  Let(decompressFromFile(w1, z.blocks_size * SIZEOF_ZlineIndexBlock,
                         compressed_sizes[1], 0),
      LAMBDA w2 :
  IF w2.crash # "none" THEN w2
  ELSE IF w2.rv # z.blocks_size * SIZEOF_ZlineIndexBlock THEN Fail(w2)
  ELSE
    Let(decompressFromFile([w2 EXCEPT !.zf.blocks = w2.data],
                           (z.blocks_size - 1) * SIZEOF_U64,
                           compressed_sizes[2], 0),
        LAMBDA w3 :
        IF w3.crash # "none" THEN w3
        ELSE IF w3.rv # (z.blocks_size - 1) * SIZEOF_U64 THEN Fail(w3)
        ELSE Return([w3 EXCEPT !.zf.block_starts = w3.data], 1)))

\* "read the index" of ZlineFile_read, compressed
readIndexCompressed(w, file_size) ==
  IF Fails(w, <<"idx", "read">>) THEN Fail(Fired(w))
  ELSE
    Let(ExtentAt(w.file, w.pos), LAMBDA e :
    LET z == w.zf
        compressed_sizes == e.num
        w1 == [w EXCEPT !.pos = @ + 2 * SIZEOF_U64]
    IN
    IF ~(e.kind = "u64" /\ Len(e.num) = 2) THEN Fail(w)
    ELSE IF \/ z.index_offset + compressed_sizes[1] >= file_size
            \/ z.index_offset + compressed_sizes[2] >= file_size
            \/ z.index_offset + compressed_sizes[1] + compressed_sizes[2]
                 + 2 * SIZEOF_U64 # file_size
      THEN Fail(w1)
    ELSE readIndexArrays(w1, compressed_sizes))

\* "read uncompressed index" of ZlineFile_read
readIndexRaw(w) ==
  Let(ExtentAt(w.file, w.pos), LAMBDA e :
  Let(ExtentAt(w.file, w.pos + e.size), LAMBDA e2 :
  LET z == w.zf
      w1 == [w EXCEPT !.pos = @ + e.size]
  IN
  IF ~(e.kind = "blocks" /\ Len(e.st.ents) = z.blocks_size) THEN Fail(w)
  ELSE IF z.blocks_size = 1
    THEN Return([w1 EXCEPT !.zf.blocks = e.st.ents, !.zf.block_starts = <<>>], 1)
  ELSE IF ~(e2.kind = "starts" /\ Len(e2.st.ents) = z.blocks_size - 1)
    THEN Fail(w1)
  ELSE Return([w1 EXCEPT !.pos = @ + e2.size,
                         !.zf.blocks = e.st.ents,
                         !.zf.block_starts = e2.st.ents], 1)))

\* ZlineFile_read once the header is parsed
readIndex(w2, file_size) ==
  IF Fails(w2, <<"idx", "seek">>) THEN Fail(Fired(w2))
  ELSE
    Let(IF w2.zf.is_index_compressed # 0
        THEN readIndexCompressed(w2, file_size) ELSE readIndexRaw(w2),
        LAMBDA w3 :
        IF w3.crash # "none" \/ w3.rv = 0 THEN w3
        ELSE Return([w3 EXCEPT
               !.zf.read_block =
                  [createBlock(MaxOver(w3.zf.blocks, 1, 0)) EXCEPT !.idx = -1]],
               1))

\* ZlineFile_read; rv = 1 for a file object, 0 for NULL
ZlineFile_read(w) ==
  Let([w EXCEPT !.zf = [ZeroFile EXCEPT !.mode = ZLINE_MODE_READ],
                !.obj = "live", !.pos = 0],
      LAMBDA w0 :
  \* fopen(filename, "rb")
  IF w.file.hdr = <<>> THEN Fail(w0)
  ELSE IF Fails(w0, <<"fopen", "open">>) THEN Fail(Fired(w0))
  ELSE
    Let(readHeader([w0.zf EXCEPT !.fp_open = TRUE, !.decompress_stream = TRUE],
                   w.file.hdr),
        LAMBDA h :
        IF h.rv # 0 THEN Fail(w0)
        ELSE readIndex([w0 EXCEPT !.zf = h.z, !.pos = h.z.index_offset],
                       getFileSize(w.file))))

(***************************************************************************)
(* The state machine: one action per API call                              *)
(***************************************************************************)
\* the I/O calls that can be made to fail, by API call
CreateFaults == { <<"fopen", "open">>, <<"hdr", "seek">>, <<"hdr", "write">> }
AddFaults == { <<"dir", "write">>, <<"blk", "full">>, <<"blk", "last">> }
CloseFaults ==
  AddFaults \cup
  { <<"pad", "write">>, <<"idx", "seek">>, <<"idxb", "full">>,
    <<"idxb", "last">>, <<"idxs", "full">>, <<"idxs", "last">>,
    <<"hdr", "seek">>, <<"hdr", "write">> }
QueryFaults ==
  { <<"blk", "seek">>, <<"dir", "read">>, <<"z", "read">>, <<"z", "codec">> }
ReadFaults ==
  { <<"fopen", "open">>, <<"idx", "seek">>, <<"idx", "read">>,
    <<"z", "read">>, <<"z", "codec">> }

\* the outcomes of reading past the end of a buffer
UBOutcomes == { "crash", "garbage" }

World(fail, ub) ==
  [zf |-> zf, obj |-> obj, pos |-> pos, file |-> file, crash |-> crash,
   fail |-> fail, ub |-> ub, rv |-> 0, data |-> <<>>, nul |-> FALSE,
   blk |-> "none"]

\* an injected failure counts when the failing call was reached
Injected(w, fail) ==
  \/ fail = NoFail
  \/ faults < MaxFaults /\ w.fail = NoFail

Result(op, mode, idx, buf_len, off, w) ==
  [op |-> op, mode |-> mode, idx |-> idx, buf_len |-> buf_len, off |-> off,
   rv |-> w.rv, data |-> w.data, nul |-> w.nul, failed |-> FALSE]

Commit(w, fail, r) ==
  /\ Injected(w, fail)
  /\ zf' = w.zf
  /\ obj' = w.obj
  /\ pos' = w.pos
  /\ file' = w.file
  /\ crash' = w.crash
  /\ faults' = IF fail = NoFail THEN faults ELSE faults + 1
  /\ ret' = [r EXCEPT !.failed = (fail # NoFail)]

\* a query that reads past the end of a buffer has either outcome: w is the
\* call where such a read ends the process, other the call where it goes on
Outcomes(w, other) == IF w.crash = "ub" THEN { w, other } ELSE { w }

NoResult ==
  [op |-> "none", mode |-> 0, idx |-> 0, buf_len |-> 0, off |-> 0, rv |-> 0,
   data |-> <<>>, nul |-> FALSE, failed |-> FALSE]

Running == obj = "live" /\ crash = "none"

Init ==
  /\ zf = ZeroFile
  /\ obj = "null"
  /\ pos = 0
  /\ file = [hdr |-> <<>>, ext |-> <<>>]
  /\ ret = NoResult
  /\ added = <<>>
  /\ built = FALSE
  /\ crash = "none"
  /\ faults = 0

Create(block_size, fail) ==
  /\ obj = "null" /\ crash = "none" /\ file.hdr = <<>>
  /\ \E w \in { ZlineFile_create2(World(fail, "crash"), block_size) } :
       Commit(w, fail, Result("create", 0, 0, 0, 0, w))
  /\ added' = <<>>
  /\ built' = FALSE

AddLine(line, fail) ==
  /\ Running
  /\ zf.mode = ZLINE_MODE_CREATE => Len(added) < MaxLines
  /\ \E w \in { ZlineFile_add_line2(World(fail, "crash"), line) } :
       /\ Commit(w, fail, Result("add_line", zf.mode, 0, Len(line), 0, w))
       /\ added' = IF w.crash = "none" /\ w.rv = 0
                   THEN Append(added, line) ELSE added
  /\ UNCHANGED built

LineLength(line_idx, fail) ==
  /\ Running
  /\ \E w0 \in { ZlineFile_line_length(World(fail, "crash"), line_idx) } :
       \E w \in Outcomes(w0, ZlineFile_line_length(World(fail, "garbage"),
                                                  line_idx)) :
         Commit(w, fail, Result("line_length", zf.mode, line_idx, 0, 0, w))
  /\ UNCHANGED <<added, built>>

GetLine(line_idx, fail) ==
  /\ Running
  /\ \E w0 \in { ZlineFile_get_line(World(fail, "crash"), line_idx) } :
       \E w \in Outcomes(w0, ZlineFile_get_line(World(fail, "garbage"),
                                               line_idx)) :
         Commit(w, fail, Result("get_line", zf.mode, line_idx, 0, 0, w))
  /\ UNCHANGED <<added, built>>

GetLine2(line_idx, buf_len, offset, fail) ==
  /\ Running
  /\ \E w0 \in { ZlineFile_get_line2(World(fail, "crash"), line_idx, buf_len,
                                       offset) } :
       \E w \in Outcomes(w0, ZlineFile_get_line2(World(fail, "garbage"),
                                                line_idx, buf_len, offset)) :
         Commit(w, fail,
                Result("get_line2", zf.mode, line_idx, buf_len, offset, w))
  /\ UNCHANGED <<added, built>>

GetLineDetails(line_idx, fail) ==
  /\ Running
  /\ \E w \in { ZlineFile_get_line_details(World(fail, "crash"), line_idx) } :
       Commit(w, fail, Result("get_line_details", zf.mode, line_idx, 0, 0, w))
  /\ UNCHANGED <<added, built>>

Close(fail) ==
  /\ Running
  /\ \E w \in { ZlineFile_close(World(fail, "crash")) } :
       /\ Commit([w EXCEPT !.pos = 0], fail,
                  Result("close", zf.mode, 0, 0, 0, w))
       /\ built' = (built \/ (zf.mode = ZLINE_MODE_CREATE /\ w.crash = "none"))
  /\ UNCHANGED added

\* ZlineFile_close on an object that ZlineFile_close has released: zf->mode
\* is read from released memory and ZlineFile_deallocate releases the
\* buffers, the streams and the FILE again; the process goes on or ends
CloseAgain(outcome) ==
  /\ obj = "freed" /\ crash = "none"
  /\ obj' = "freed_twice"
  /\ crash' = outcome
  /\ ret' = [NoResult EXCEPT !.op = "close"]
  /\ UNCHANGED <<zf, pos, file, added, built, faults>>

\* ZlineFile_read of the file, by this process once it holds no file object
\* or by a new process once this one has ended
Read(fail) ==
  /\ obj # "live" \/ crash # "none"
  /\ file.hdr # <<>>
  /\ \E w \in { ZlineFile_read([World(fail, "crash") EXCEPT
                                   !.crash = "none"]) } :
       Commit(w, fail, Result("read", 0, 0, 0, 0, w))
  /\ UNCHANGED <<added, built>>

\* the API calls: lines are the lines added, dst the destination sizes passed
\* to get_line2, and the I/O calls named in cf, af, qf, xf, rf may fail
Calls(lines, dst, cf, af, qf, xf, rf) ==
  \/ \E bs \in BlockSizeSet, f \in cf : Create(bs, f)
  \/ \E l \in lines, f \in af : AddLine(l, f)
  \/ \E i \in 0..MaxLines, f \in qf : LineLength(i, f)
  \/ \E i \in 0..MaxLines, f \in qf : GetLine(i, f)
  \/ \E i \in 0..MaxLines, n \in dst, o \in 0..MaxOffset, f \in qf :
        GetLine2(i, n, o, f)
  \/ \E i \in 0..MaxLines, f \in qf : GetLineDetails(i, f)
  \/ \E f \in xf : Close(f)
  \/ \E o \in {"none", "ub"} : CloseAgain(o)
  \/ \E f \in rf : Read(f)

\* every I/O call succeeds
Next ==
  Calls(LineSet, 1..MaxDstLen, {NoFail}, {NoFail}, {NoFail}, {NoFail}, {NoFail})

Spec == Init /\ [][Next]_vars

\* I/O calls may fail
NextFault ==
  Calls(FaultLineSet, {MaxDstLen},
        CreateFaults \cup {NoFail}, AddFaults \cup {NoFail},
        QueryFaults \cup {NoFail}, CloseFaults \cup {NoFail},
        ReadFaults \cup {NoFail})

SpecFault == Init /\ [][NextFault]_vars

\* ZlineFile_add_line2 while building, where no reader query is made
AddLineBuilding(line) ==
  /\ Running
  /\ zf.mode = ZLINE_MODE_CREATE
  /\ Len(added) < MaxBuildLines
  /\ \E w \in { ZlineFile_add_line2(World(NoFail, "crash"), line) } :
       /\ Commit(w, NoFail, Result("add_line", zf.mode, 0, Len(line), 0, w))
       /\ added' = IF w.crash = "none" /\ w.rv = 0
                   THEN Append(added, line) ELSE added
  /\ UNCHANGED built

\* a file is built, closed and opened again; nothing is queried
NextLayout ==
  \/ \E bs \in BlockSizeSet : Create(bs, NoFail)
  \/ \E l \in LineSet : AddLineBuilding(l)
  \/ Close(NoFail)
  \/ Read(NoFail)

SpecLayout == Init /\ [][NextLayout]_vars

(***************************************************************************)
(* Properties                                                              *)
(***************************************************************************)
\* the bytes of s that a slice of at most n bytes from offset off holds
Slice(s, off, n) == SubSeq(s, off + 1, MIN(Len(s), off + n))

RECURSIVE MaxLineLen(_)
MaxLineLen(S) == IF S = <<>> THEN 0 ELSE MAX(Len(Head(S)), MaxLineLen(Tail(S)))

\* the last call was a reader query for a line that was added
AskedFor(op, mode) ==
  ret.op = op /\ ret.mode = mode /\ ret.idx < Len(added)

\* C1 (round trip): once create, add_line of each line and close have
\* returned, read succeeds with line_count and max_line_len those of the
\* lines added, and in the re-opened file line_length(i) is the length of
\* line i and get_line(i) its bytes followed by a nul.
C1_RoundTrip ==
  built /\ added # <<>> =>
    /\ ret.op = "read" =>
          /\ ret.rv = 1
          /\ zf.line_count = Len(added)
          /\ zf.max_line_len = MaxLineLen(added)
    /\ AskedFor("line_length", ZLINE_MODE_READ) =>
          crash = "none" /\ ret.rv = Len(added[ret.idx + 1])
    /\ AskedFor("get_line", ZLINE_MODE_READ) =>
          /\ crash = "none"
          /\ ret.rv = 1 /\ ret.nul
          /\ ret.data = added[ret.idx + 1]

\* C2 (slice correctness): get_line2(i, buf, dst_len, off) with dst_len >= 1
\* on a line that was added returns buf holding the first
\* min(dst_len - 1, len - off) bytes of the line from off, nothing when
\* off >= len, followed by a nul; while building and after re-opening.
C2_SliceCorrect ==
  \/ AskedFor("get_line2", ZLINE_MODE_CREATE)
  \/ built /\ AskedFor("get_line2", ZLINE_MODE_READ)
  => /\ crash = "none"
     /\ ret.rv = 1 /\ ret.nul
     /\ ret.data = Slice(added[ret.idx + 1], ret.off, ret.buf_len - 1)

C5_EmptyFile ==
  added = <<>> =>
    /\ ret.op = "close" /\ ret.mode = ZLINE_MODE_CREATE => crash = "none"
    /\ ret.op = "read" /\ built =>
          ret.rv = 1 /\ zf.line_count = 0 /\ zf.max_line_len = 0

\* C6 (mode error): add_line on a file opened by read returns -1 and leaves
\* the object, the cursor and the file as they were, so that every query
\* answers afterwards as it did before.
C6_ModeError ==
  [][/\ Running /\ zf.mode = ZLINE_MODE_READ
     /\ ret'.op = "add_line"
     => /\ ret'.rv = -1
        /\ UNCHANGED <<zf, obj, pos, file, crash, added>>]_vars

\* add_line was refused on a re-opened file that holds lines
C6_Witness ==
  /\ Running /\ zf.mode = ZLINE_MODE_READ /\ zf.line_count > 0
  /\ ret.op = "add_line" /\ ret.mode = ZLINE_MODE_READ /\ ret.rv = -1

\* C7 (double close): close on a file object that close has released is a
\* no-op: nothing is released a second time and the process goes on.
C7_DoubleCloseNoOp ==
  [][obj = "freed" /\ ret'.op = "close" => UNCHANGED <<obj, crash>>]_vars

\* C8 (out-of-range index): line_length, get_line and get_line2 with
\* line_idx >= line_count return -1, NULL and NULL, write nothing to the
\* buffer, load no block and leave the cursor and the cache as they were.
C8_OutOfRange ==
  [][/\ Running
     /\ ret'.op \in {"line_length", "get_line", "get_line2"}
     /\ ret'.idx >= zf.line_count
     => /\ ret'.rv = IF ret'.op = "line_length" THEN -1 ELSE 0
        /\ ret'.data = <<>> /\ ~ret'.nul
        /\ UNCHANGED <<zf, obj, pos, file, crash>>]_vars

\* get_line2 was refused for the index line_count while a block is cached
C8_Witness ==
  /\ Running /\ zf.line_count > 0
  /\ zf.read_block.alloc /\ zf.read_block.idx >= 0
  /\ ret.op = "get_line2" /\ ret.idx = zf.line_count /\ ret.rv = 0

\* C9 (read errors): when a read, a seek or the codec fails while the block
\* of a valid line is loaded or decoded, get_line and get_line2 return NULL
\* and the process goes on; stated for a file opened by read.
C9_ReadErrorNull ==
  /\ ret.failed
  /\ ret.op \in {"get_line", "get_line2"}
  /\ ret.mode = ZLINE_MODE_READ
  /\ ret.idx < zf.line_count
  => crash = "none" /\ ret.rv = 0

\* C10 (write errors): when a write fails during add_line or close the
\* process goes on, and add_line does not return 0.
C10_WriteErrorSurfaced ==
  /\ ret.failed
  /\ ret.op \in {"add_line", "close"}
  /\ ret.mode = ZLINE_MODE_CREATE
  => /\ crash = "none"
     /\ ret.op = "add_line" => ret.rv # 0

(***************************************************************************)
(* The file after another program has changed it: between the close of the *)
(* object that built it and ZlineFile_read, one line of the header or the   *)
(* block index is replaced.                                                *)
(***************************************************************************)
\* the header lines another program may write: another version, a name that
\* is not a field, another algorithm, a first line with text after the
\* prefix, and each required field with the value 0 or with no value
HeaderEdits ==
  { HLine("zline v1.0", 0, ""), HLine("bogus", 1, ""),
    HLine("alg", 0, "gzip"), HLine("zline v2.0", 0, "b") }
  \cup { HLine(n, 0, "") : n \in NumberFields \ {"maxlen"} }
  \cup { HLine(n, NoNumber, "") : n \in NumberFields \ {"maxlen"} }

\* no line: the header line is removed
NoLine == HLine("", 0, "")

\* the object that built the file has just been closed
JustBuilt == built /\ ret.op = "close" /\ ret.mode = ZLINE_MODE_CREATE

\* line k of the header is replaced by l, or removed
EditHeader(k, l) ==
  /\ JustBuilt
  /\ k \in 1..Len(file.hdr)
  /\ file' = [file EXCEPT !.hdr =
                IF l = NoLine
                THEN SubSeq(@, 1, k - 1) \o SubSeq(@, k + 1, Len(@))
                ELSE [@ EXCEPT ![k] = l]]
  /\ ret' = [NoResult EXCEPT !.op = "edit_header"]
  /\ UNCHANGED <<zf, obj, pos, added, built, crash, faults>>

\* the block index with the offsets of its entries in the opposite order
Reversed(blocks) ==
  [k \in 1..Len(blocks) |->
     [blocks[k] EXCEPT !.offset = blocks[Len(blocks) + 1 - k].offset]]

\* the compressed block index of the file is replaced by one of the same
\* size in which the offsets of the blocks decrease
EditIndex ==
  /\ JustBuilt
  /\ \E k \in 1..Len(file.ext) :
       /\ file.ext[k].kind = "stream"
       /\ file.ext[k].st.esz = SIZEOF_ZlineIndexBlock
       /\ Len(file.ext[k].st.ents) >= 2
       /\ file' = [file EXCEPT !.ext[k].st.ents = Reversed(@)]
  /\ ret' = [NoResult EXCEPT !.op = "edit_index"]
  /\ UNCHANGED <<zf, obj, pos, added, built, crash, faults>>

NextForeign ==
  \/ \E bs \in BlockSizeSet : Create(bs, NoFail)
  \/ \E l \in FaultLineSet : AddLine(l, NoFail)
  \/ Close(NoFail)
  \/ \E k \in 1..8, l \in HeaderEdits \cup {NoLine} : EditHeader(k, l)
  \/ EditIndex
  \/ Read(NoFail)

SpecForeign == Init /\ [][NextForeign]_vars

\* the index tables of the closed file, as ZlineFile_read loaded them
Loaded ==
  built /\ obj = "live" /\ crash = "none" /\ zf.mode = ZLINE_MODE_READ

\* C11 (monotonicity): after close the offsets of the blocks are strictly
\* increasing, and block_starts is strictly increasing with a first entry of
\* at least 1.
C11_Monotonic ==
  Loaded =>
    /\ \A b \in 1..(Len(zf.blocks) - 1) :
          zf.blocks[b].offset < zf.blocks[b + 1].offset
    /\ \A b \in 1..(Len(zf.block_starts) - 1) :
          zf.block_starts[b] < zf.block_starts[b + 1]
    /\ zf.block_starts # <<>> => zf.block_starts[1] >= 1

\* a closed file of three blocks was opened
C11_Witness ==
  Loaded /\ Len(zf.blocks) = 3 /\ Len(zf.block_starts) = 2

\* the number of blocks written to disk: while building the last entry of
\* blocks is the placeholder of the write block
Flushed ==
  IF zf.mode = ZLINE_MODE_CREATE THEN zf.blocks_size - 1 ELSE zf.blocks_size

\* the bytes that the line directory of a block takes in the file
DirectoryBytes(f, block) ==
  IF isBlockLineIndexCompressed(block)
  THEN SIZEOF_U64 + ExtentAt(f, block.offset).num[1]
  ELSE SIZEOF_ZlineIndexLine * Len(ExtentAt(f, block.offset).st.ents)

\* the file holds, at the offset of the block, a line directory in the form
\* the block's flag names and after it the compressed content
StoredAsIndexed(f, block) ==
  /\ IF isBlockLineIndexCompressed(block)
     THEN /\ ExtentAt(f, block.offset).kind = "u64"
          /\ Len(ExtentAt(f, block.offset).num) = 1
          /\ ExtentAt(f, block.offset + SIZEOF_U64).kind = "stream"
          /\ ExtentAt(f, block.offset + SIZEOF_U64).size
               = ExtentAt(f, block.offset).num[1]
     ELSE /\ ExtentAt(f, block.offset).kind = "lines"
          /\ ExtentAt(f, block.offset).size
               = SIZEOF_ZlineIndexLine * Len(ExtentAt(f, block.offset).st.ents)
  /\ ExtentAt(f, block.offset + DirectoryBytes(f, block)).kind = "stream"
  /\ ExtentAt(f, block.offset + DirectoryBytes(f, block)).st.esz = 1
  /\ ExtentAt(f, block.offset + DirectoryBytes(f, block)).size
       = getBlockCompressedLen(block)

\* where the block ends in the file
BlockEnd(f, block) ==
  block.offset + DirectoryBytes(f, block) + getBlockCompressedLen(block)

\* where the data region ends
DataEnd ==
  IF Flushed = 0 THEN HEADER_SIZE ELSE BlockEnd(file, zf.blocks[Flushed])

RECURSIVE BytesWritten(_, _, _)
\* the bytes of the items written at offsets in [from, to)
BytesWritten(ext, from, to) ==
  IF ext = <<>> THEN 0
  ELSE (IF Head(ext).off >= from /\ Head(ext).off < to
        THEN Head(ext).size ELSE 0)
       + BytesWritten(Tail(ext), from, to)

\* C12 (contiguity): while building and after close, the first flushed
\* block starts at HEADER_SIZE, each flushed block ends where the next one
\* starts, its size being its line directory (16 bytes per entry, or the
\* 8-byte size and the compressed bytes) plus its compressed content, the
\* write block and the cursor are at the end of the last flushed block, and
\* the bytes written to the data region are exactly those of the blocks.
C12_Contiguous ==
  Loaded \/ (Running /\ zf.mode = ZLINE_MODE_CREATE) =>
    /\ Flushed >= 1 => zf.blocks[1].offset = HEADER_SIZE
    /\ \A b \in 1..Flushed : StoredAsIndexed(file, zf.blocks[b])
    /\ \A b \in 1..(Flushed - 1) :
          zf.blocks[b + 1].offset = BlockEnd(file, zf.blocks[b])
    /\ BytesWritten(file.ext, HEADER_SIZE, DataEnd) = DataEnd - HEADER_SIZE
    /\ zf.mode = ZLINE_MODE_CREATE =>
          zf.write_block.offset = DataEnd /\ pos = DataEnd
    /\ zf.mode = ZLINE_MODE_READ =>
          zf.index_offset - DataEnd \in 0..7

\* a closed file of two blocks, the first with a compressed line directory
\* and the second with a raw one
C12_Witness ==
  /\ Loaded /\ Flushed = 2
  /\ isBlockLineIndexCompressed(zf.blocks[1])
  /\ ~isBlockLineIndexCompressed(zf.blocks[2])

\* the line directory of a block as the file holds it
DirectoryOf(f, block) ==
  IF isBlockLineIndexCompressed(block)
  THEN ExtentAt(f, block.offset + SIZEOF_U64).st.ents
  ELSE ExtentAt(f, block.offset).st.ents

\* the content of a block as the file holds it, decompressed
ContentOf(f, block) ==
  ExtentAt(f, block.offset + DirectoryBytes(f, block)).st.ents

\* F(b) of the first-line array, for the blocks b = 0 .. blocks_size
FirstLineOf(z, b) ==
  IF b = 0 THEN 0
  ELSE IF b = z.blocks_size THEN z.line_count
  ELSE z.block_starts[b]

\* C13 (line coverage): after close, the line directory on disk of block b
\* has F(b+1) - F(b) entries, and its k-th entry gives the length of line
\* F(b) + k and the place of its bytes in the content of the block.
C13_LineCoverage ==
  Loaded =>
    \A b \in 0..(zf.blocks_size - 1) :
      /\ Len(DirectoryOf(file, zf.blocks[b + 1]))
           = FirstLineOf(zf, b + 1) - FirstLineOf(zf, b)
      /\ \A k \in 1..Len(DirectoryOf(file, zf.blocks[b + 1])) :
           /\ FirstLineOf(zf, b) + k <= Len(added)
           /\ DirectoryOf(file, zf.blocks[b + 1])[k].length
                = Len(added[FirstLineOf(zf, b) + k])
           /\ Slice(ContentOf(file, zf.blocks[b + 1]),
                    DirectoryOf(file, zf.blocks[b + 1])[k].offset,
                    DirectoryOf(file, zf.blocks[b + 1])[k].length)
                = added[FirstLineOf(zf, b) + k]

RECURSIVE SumOfLengths(_, _)
\* the sum of the lengths of the first k entries of a line directory
SumOfLengths(d, k) ==
  IF k = 0 THEN 0 ELSE d[k].length + SumOfLengths(d, k - 1)

RECURSIVE SumOfDecompressed(_, _)
\* the sum of decompressed_length over the first k entries of the block index
SumOfDecompressed(blocks, k) ==
  IF k = 0 THEN 0
  ELSE blocks[k].decompressed_length + SumOfDecompressed(blocks, k - 1)

RECURSIVE TotalLength(_)
\* the sum of the lengths of the lines of S
TotalLength(S) == IF S = <<>> THEN 0 ELSE Len(Head(S)) + TotalLength(Tail(S))

\* C14 (content accounting): after close, the decompressed lengths of the
\* blocks add up to the lengths of the lines added; in each block
\* decompressed_length is the sum of the lengths in its line directory, and
\* the offset of each entry is the sum of the lengths of the entries before.
C14_ContentAccounting ==
  Loaded =>
    /\ SumOfDecompressed(zf.blocks, Len(zf.blocks)) = TotalLength(added)
    /\ \A b \in 1..Len(zf.blocks) :
         /\ zf.blocks[b].decompressed_length
              = SumOfLengths(DirectoryOf(file, zf.blocks[b]),
                             Len(DirectoryOf(file, zf.blocks[b])))
         /\ zf.blocks[b].decompressed_length
              = Len(ContentOf(file, zf.blocks[b]))
         /\ \A k \in 1..Len(DirectoryOf(file, zf.blocks[b])) :
              DirectoryOf(file, zf.blocks[b])[k].offset
                = SumOfLengths(DirectoryOf(file, zf.blocks[b]), k - 1)

\* a closed file of two blocks, one of them holding two lines that are not
\* empty
C14_Witness ==
  /\ Loaded /\ Len(zf.blocks) = 2
  /\ \E b \in 1..2 :
       /\ Len(DirectoryOf(file, zf.blocks[b])) = 2
       /\ DirectoryOf(file, zf.blocks[b])[1].length > 0
       /\ DirectoryOf(file, zf.blocks[b])[2].length > 0

\* the numbers that the header lines named word give
HeaderNums(h, word) == { h[k].num : k \in { j \in 1..Len(h) : h[j].word = word } }

\* C15 (counters): while building, after k add_line calls were accepted
\* line_count is k and max_line_len is the largest of their lengths (0 when
\* k = 0); the header that close has rewritten gives the same two values as
\* lines and maxlen.
C15_Counters ==
  /\ Running /\ zf.mode = ZLINE_MODE_CREATE =>
        /\ zf.line_count = Len(added)
        /\ zf.max_line_len = MaxLineLen(added)
  /\ built =>
        /\ HeaderNums(file.hdr, "lines") = { Len(added) }
        /\ HeaderNums(file.hdr, "maxlen") = { MaxLineLen(added) }

\* close has rewritten the header of a file of three lines in two blocks or
\* more, the longest of which is not the last
C15_Witness ==
  /\ built /\ Len(added) = 3
  /\ Len(added[3]) < MaxLineLen(added)
  /\ MaxLineLen(added) # 3
  /\ \E n \in HeaderNums(file.hdr, "blocks") : n >= 2

\* C16 (oversize lines): once add_line has accepted a line longer than the
\* block size, whatever was added before it, the last block on disk holds
\* that line alone: its line directory has one entry and its
\* decompressed_length is the length of the line.
C16_OversizeOwnBlock ==
  /\ Running /\ zf.mode = ZLINE_MODE_CREATE
  /\ ret.op = "add_line" /\ ret.rv = 0
  /\ ret.buf_len > zf.write_block.content_capacity
  => /\ Flushed >= 1
     /\ Len(DirectoryOf(file, zf.blocks[Flushed])) = 1
     /\ zf.blocks[Flushed].decompressed_length = ret.buf_len
     /\ ContentOf(file, zf.blocks[Flushed]) = added[Len(added)]

AskedForLargeSingleLine ==
  /\ Running
  /\ ret.op \in {"line_length", "get_line", "get_line2"}
  /\ ret.idx < zf.line_count
  /\ ~(zf.mode = ZLINE_MODE_CREATE /\ lineInBlock(zf.write_block, ret.idx))
  /\ ZlineFile_get_block_line_count(zf, getLineBlock(zf, ret.idx)) = 1
  /\ zf.blocks[getLineBlock(zf, ret.idx) + 1].decompressed_length
       > MAX_IN_MEMORY_BLOCK

FieldValue(h, n) ==
  IF \A k \in 2..Len(h) : h[k].word # n THEN 0
  ELSE h[CHOOSE k \in 2..Len(h) :
           /\ h[k].word = n
           /\ \A j \in (k + 1)..Len(h) : h[j].word # n].num

\* the four fields a header must give
RequiredFields == { "data_offset", "index_offset", "lines", "blocks" }

\* the defects of a header that C18 names
BadPrefix(h) == h = <<>> \/ h[1].word # "zline v2.0"
UnknownField(h) ==
  \E k \in 2..Len(h) : h[k].word \notin NumberFields \cup {"alg", "zi"}
UnknownAlgorithm(h) == \E k \in 2..Len(h) : h[k].word = "alg" /\ h[k].str # "fzstd"
Incomplete(h) == \E n \in RequiredFields : FieldValue(h, n) \in {0, NoNumber}

\* C18 (header validation): read returns NULL and releases the object when
\* the first line of the header does not start with "zline v2.0", a header
\* line has an unknown field name, the alg value is not fzstd, or one of
\* data_offset, index_offset, lines, blocks is zero or absent.
C18_HeaderValidation ==
  /\ ret.op = "read"
  /\ \/ BadPrefix(file.hdr)
     \/ UnknownField(file.hdr)
     \/ UnknownAlgorithm(file.hdr)
     \/ Incomplete(file.hdr)
  => /\ ret.rv = 0
     /\ obj = "null" /\ zf = ZeroFile
     /\ crash = "none"

\* read has refused a file that was built and closed, and whose header
\* then lost nothing but its blocks line
C18_Witness ==
  /\ built /\ ret.op = "read" /\ ret.rv = 0
  /\ ~BadPrefix(file.hdr) /\ ~UnknownField(file.hdr)
  /\ ~UnknownAlgorithm(file.hdr)
  /\ \A k \in 2..Len(file.hdr) : file.hdr[k].word # "blocks"
  /\ \A n \in RequiredFields \ {"blocks"} :
       FieldValue(file.hdr, n) \notin {0, NoNumber}

\* C19 (index validation on open): read returns NULL for a file whose
\* block index, once loaded, has offsets that are not strictly increasing;
\* the block index of a file that read has opened is strictly increasing.
C19_IndexValidation ==
  ret.op = "read" /\ ret.rv = 1 =>
    \A b \in 1..(Len(zf.blocks) - 1) :
      zf.blocks[b].offset < zf.blocks[b + 1].offset

\* C20 (return value of add_line), as claimed: while building, add_line
\* returns the number of bytes accepted, the length of the line.
C20_ReturnsLength ==
  Running /\ ret.op = "add_line" /\ ret.mode = ZLINE_MODE_CREATE =>
    ret.rv = ret.buf_len

\* C20 as amended: while building, add_line returns 0, and the line it was
\* given is then the last of the file.
C20_ReturnsZero ==
  Running /\ ret.op = "add_line" /\ ret.mode = ZLINE_MODE_CREATE =>
    /\ ret.rv = 0
    /\ zf.line_count = Len(added)
    /\ Len(added[Len(added)]) = ret.buf_len

\* add_line has returned for a line of four bytes that follows another line
C20_Witness ==
  /\ Running /\ ret.op = "add_line" /\ ret.mode = ZLINE_MODE_CREATE
  /\ ret.buf_len = 4 /\ ret.rv = 0 /\ Len(added) = 2

ContentStreams ==
  { k \in 1..Len(file.ext) :
      file.ext[k].kind = "stream" /\ file.ext[k].st.esz = 1 }

\* decompressFromFile called with the cursor at the start of the item e
DecompressAt(e, readbuf_len, read_offset) ==
  decompressFromFile(
    [World(NoFail, "crash") EXCEPT
       !.crash = "none", !.pos = e.off, !.zf.decompress_stream = TRUE],
    readbuf_len, e.size, read_offset)

\* C22 (decompress_from_file): called at the start of a compressed stream
\* whose decompressed size is at least skip_bytes + dst_len, it returns
\* dst_len and fills dst with the decompressed bytes from skip_bytes on;
\* stated for the content streams that the writer has put in the file.
C22_StreamSlice ==
  \A k \in ContentStreams :
    \A skip \in 0..Len(file.ext[k].st.ents) :
      \A n \in 0..(Len(file.ext[k].st.ents) - skip) :
        /\ DecompressAt(file.ext[k], n, skip).rv = n
        /\ DecompressAt(file.ext[k], n, skip).data
             = Slice(file.ext[k].st.ents, skip, n)

\* the line directory of the block is stored compressed exactly when it has
\* two entries or more and its compressed size plus the eight bytes of the
\* stored size is less than its raw size, the stored size being that of the
\* compressed bytes
DirectoryPolicy(f, block) ==
  Let(DirectoryOf(f, block), LAMBDA dir :
    /\ isBlockLineIndexCompressed(block)
         <=> /\ Len(dir) >= 2
             /\ ZLinesSize(dir) + SIZEOF_U64 < SIZEOF_ZlineIndexLine * Len(dir)
    /\ isBlockLineIndexCompressed(block) =>
         /\ ExtentAt(f, block.offset).num = <<ZLinesSize(dir)>>
         /\ Len(ExtentAt(f, block.offset + SIZEOF_U64).st.units)
              = ZLinesSize(dir))

\* C23 (line-directory compression policy): while building and after
\* close, every flushed block has its line directory stored compressed (the
\* 8-byte compressed size, then the compressed bytes) iff it has n >= 2
\* entries and compressed size + 8 < 16 * n, and raw (16 * n bytes)
\* otherwise; the flag of compressed_length_x is set iff the directory is
\* stored compressed and its length part is the number of compressed
\* content bytes written; and the directory that the reader holds for the
\* block it has loaded is the one that was flushed.
C23_DirectoryPolicy ==
  /\ Loaded \/ (Running /\ zf.mode = ZLINE_MODE_CREATE) =>
       \A b \in 1..Flushed :
         /\ StoredAsIndexed(file, zf.blocks[b])
         /\ DirectoryPolicy(file, zf.blocks[b])
         /\ getBlockCompressedLen(zf.blocks[b])
              = Len(CompressContent(ContentOf(file, zf.blocks[b])).units)
  /\ Loaded /\ zf.read_block.alloc /\ zf.read_block.idx # -1 =>
       /\ zf.read_block.idx \in 0..(zf.blocks_size - 1)
       /\ zf.read_block.lines
            = DirectoryOf(file, zf.blocks[zf.read_block.idx + 1])

\* b is a block whose range of lines [F(b), F(b+1)) holds line_idx
HoldsLine(z, b, line_idx) ==
  FirstLineOf(z, b) <= line_idx /\ line_idx < FirstLineOf(z, b + 1)

\* C24 (get_line_block): while building or reading, every entry of
\* block_starts in use is at least 1, and for every line_idx < line_count
\* getLineBlock returns a block b with F(b) <= line_idx < F(b+1), the only
\* such block, where F(0) = 0, F(b) = block_starts[b-1] and
\* F(blocks_size) = line_count; it returns 0 when blocks_size <= 1, and
\* ZlineFile_get_line_details reports that block.
C24_GetLineBlock ==
  Running /\ zf.mode \in {ZLINE_MODE_CREATE, ZLINE_MODE_READ} =>
    /\ \A k \in 1..(zf.blocks_size - 1) : zf.block_starts[k] >= 1
    /\ \A line_idx \in 0..(zf.line_count - 1) :
         /\ getLineBlock(zf, line_idx) \in 0..(zf.blocks_size - 1)
         /\ HoldsLine(zf, getLineBlock(zf, line_idx), line_idx)
         /\ \A b \in 0..(zf.blocks_size - 1) :
              HoldsLine(zf, b, line_idx) => b = getLineBlock(zf, line_idx)
         /\ zf.blocks_size <= 1 => getLineBlock(zf, line_idx) = 0
    /\ ret.op = "get_line_details" /\ ret.rv = 0 =>
         /\ ret.idx < zf.line_count
         /\ HoldsLine(zf, ret.data[3], ret.idx)

\* ZlineFile_get_line_details has reported a line of the second block
C24_Witness ==
  /\ Running /\ ret.op = "get_line_details" /\ ret.rv = 0
  /\ ret.data[3] = 1 /\ zf.blocks_size >= 2

\* the reader queries
Queries == {"line_length", "get_line", "get_line2", "get_line_details"}

\* the bytes of a line held in a block in memory
LineBytes(block, line_idx) ==
  SubSeq(block.content, LineOf(block, line_idx).offset + 1,
         LineOf(block, line_idx).offset + LineOf(block, line_idx).length)

\* the result r is the answer to its query taken from the block
AnsweredFrom(block, r) ==
  /\ r.op = "line_length" => r.rv = LineOf(block, r.idx).length
  /\ r.op = "get_line_details" =>
       /\ r.rv = 0
       /\ r.data[1] = LineOf(block, r.idx).length
       /\ r.data[2] = LineOf(block, r.idx).offset
  /\ r.op = "get_line" =>
       r.rv = 1 /\ r.nul /\ r.data = LineBytes(block, r.idx)
  /\ r.op = "get_line2" =>
       /\ r.rv = 1 /\ r.nul
       /\ r.data = Slice(LineBytes(block, r.idx), r.off, r.buf_len - 1)

\* a step that is a reader query on a file object
QueryStep ==
  /\ Running /\ zf.mode \in {ZLINE_MODE_CREATE, ZLINE_MODE_READ}
  /\ ret'.op \in Queries

\* the step is a query for a line held in the write block while building:
\* the cursor, the file and the read block are as before, and a call that
\* returns gives the answer held in the write block
WriteBlockHit ==
  /\ QueryStep /\ zf.mode = ZLINE_MODE_CREATE
  /\ lineInBlock(zf.write_block, ret'.idx)
  => /\ pos' = pos /\ file' = file
     /\ zf'.read_block = zf.read_block
     /\ zf'.write_block = zf.write_block
     /\ crash' = "none" => AnsweredFrom(zf.write_block, ret')

\* the step is a query for a line of the block that the read block holds,
\* the write block not holding it: idx, first_line and the line directory of
\* the read block, and its content, are as before
ReadBlockHit ==
  /\ QueryStep
  /\ ret'.idx < zf.line_count
  /\ lineInBlock(zf.read_block, ret'.idx)
  => /\ zf'.read_block.idx = zf.read_block.idx
     /\ zf'.read_block.first_line = zf.read_block.first_line
     /\ zf'.read_block.lines = zf.read_block.lines
     /\ zf'.read_block.content = zf.read_block.content
     /\ zf'.read_block.offset = zf.read_block.offset

\* C25 (load_line priority): while building, a query for a line held in the
\* write block is answered from that block, with no seek or read of the
\* file and the read block left as it was; in either mode a query for a line
\* of the block that the read block holds loads no block and leaves idx,
\* first_line and the line directory of the read block unchanged.
C25_LoadLinePriority == [][WriteBlockHit /\ ReadBlockHit]_vars

\* a query was answered from the write block while the read block held a
\* flushed block
C25_Witness ==
  /\ Running /\ zf.mode = ZLINE_MODE_CREATE
  /\ ret.op \in Queries /\ lineInBlock(zf.write_block, ret.idx)
  /\ AnsweredFrom(zf.write_block, ret)
  /\ zf.read_block.alloc /\ lineInBlock(zf.read_block, 0)

\* the read block holds a block
Cached == zf.read_block.alloc /\ zf.read_block.idx >= 0

\* the block is one that readBlock leaves on disk
LeftOnDisk(z, b) ==
  /\ ZlineFile_get_block_line_count(z, b) = 1
  /\ z.blocks[b + 1].decompressed_length > MAX_IN_MEMORY_BLOCK

\* C26 (read-cache validity): whenever the read block reports idx = b with
\* b >= 0, b is a block of the file and the first_line, the line directory
\* and the content of the read block are those of block b on disk, the
\* content being empty instead where b is an oversize block left on disk;
\* this holds also after a load of a block that has failed part-way.
C26_CacheValid ==
  Running /\ zf.mode \in {ZLINE_MODE_CREATE, ZLINE_MODE_READ} /\ Cached =>
    /\ zf.read_block.idx < zf.blocks_size
    /\ zf.read_block.first_line = FirstLineOf(zf, zf.read_block.idx)
    /\ zf.read_block.lines
         = DirectoryOf(file, zf.blocks[zf.read_block.idx + 1])
    /\ IF LeftOnDisk(zf, zf.read_block.idx)
       THEN zf.read_block.content = <<>>
       ELSE zf.read_block.content
              = ContentOf(file, zf.blocks[zf.read_block.idx + 1])

\* a build that ZlineFile_close has not finished: the object was created
\* and not released, the process running or ended
Unfinished == obj = "live" /\ zf.mode = ZLINE_MODE_CREATE

\* ZlineFile_read of the file as it is now, by another process
ReadNow == ZlineFile_read([World(NoFail, "crash") EXCEPT !.crash = "none"])

\* C27 (unfinished builds are not readable): from ZlineFile_create2 until
\* the header rewrite of ZlineFile_close, the header on disk is the
\* placeholder (data_offset 256, index_offset 0, lines 0, blocks 0), which
\* readHeader rejects, so that ZlineFile_read of the file fails.
C27_UnfinishedUnreadable ==
  Unfinished =>
    /\ HeaderNums(file.hdr, "data_offset") = {HEADER_SIZE}
    /\ HeaderNums(file.hdr, "index_offset") = {0}
    /\ HeaderNums(file.hdr, "lines") = {0}
    /\ HeaderNums(file.hdr, "blocks") = {0}
    /\ readHeader([ZeroFile EXCEPT !.mode = ZLINE_MODE_READ], file.hdr).rv # 0
    /\ ReadNow.rv = 0 /\ ReadNow.obj = "null"

\* ZlineFile_read has failed on the file of a build that wrote blocks and
\* was never closed
C27_Witness ==
  /\ ~built /\ ret.op = "read" /\ ret.rv = 0 /\ obj = "null"
  /\ Len(file.ext) >= 2
  /\ HeaderNums(file.hdr, "index_offset") = {0}

\* the item e is the whole compressed form, size bytes long, of an array of
\* n elements of esz bytes
WholeArray(e, size, n, esz) ==
  /\ e.kind = "stream" /\ e.size = size
  /\ e.st.esz = esz /\ Len(e.st.ents) = n
  /\ Len(e.st.units) = ZArraySize(e.st.ents)

\* the file holds, at the index_offset its header gives, the two sizes and
\* after them the two compressed tables of the index, each of them whole
IndexWritten(f) ==
  Let(FieldValue(f.hdr, "index_offset"), LAMBDA io :
  Let(FieldValue(f.hdr, "blocks"), LAMBDA nb :
  Let(ExtentAt(f, io), LAMBDA sizes :
    /\ io % 8 = 0
    /\ sizes.kind = "u64" /\ Len(sizes.num) = 2
    /\ WholeArray(ExtentAt(f, io + 2 * SIZEOF_U64), sizes.num[1], nb,
                  SIZEOF_ZlineIndexBlock)
    /\ IF nb > 1
       THEN WholeArray(ExtentAt(f, io + 2 * SIZEOF_U64 + sizes.num[1]),
                       sizes.num[2], nb - 1, SIZEOF_U64)
       ELSE sizes.num[2] = 0)))

\* C28 (close ordering under failure): once ZlineFile_close has returned
\* on a file being built, the header gives the final index_offset and
\* counts only if the pad bytes, the two size fields and the two index
\* tables were written whole; where one of those writes has failed the
\* header is the placeholder still.
C28_HeaderAfterIndex ==
  /\ ret.op = "close" /\ ret.mode = ZLINE_MODE_CREATE /\ crash = "none"
  /\ FieldValue(file.hdr, "index_offset") # 0
  => IndexWritten(file)

RECURSIVE Joined(_, _, _)
\* the bytes of the n lines of S after the first k, one after the other
Joined(S, k, n) ==
  IF n = 0 THEN <<>> ELSE S[k + 1] \o Joined(S, k + 1, n - 1)

\* a block on disk larger than the block size holds a line longer than the
\* block size, which makes up its content
ByOversizePath(f, block, capacity) ==
  \E k \in 1..Len(DirectoryOf(f, block)) :
    /\ DirectoryOf(f, block)[k].length > capacity
    /\ DirectoryOf(f, block)[k].length = block.decompressed_length

NextSlice ==
  \/ \E bs \in BlockSizeSet : Create(bs, NoFail)
  \/ \E l \in LineSet : AddLine(l, NoFail)
  \/ \E i \in 0..MaxLines, n \in 0..MaxDstLen, o \in 0..MaxOffset :
        GetLine2(i, n, o, NoFail)
  \/ Close(NoFail)
  \/ Read(NoFail)

SpecSlice == Init /\ [][NextSlice]_vars

\* C30 (destination bound): ZlineFile_get_line2 writes no more than buf_len
\* bytes into buf, the bytes copied and the nul after them, for every line,
\* every offset and every buf_len >= 0, and it copies
\* min(length - offset, buf_len - 1) bytes, buf_len - 1 not wrapping around
\* to the largest unsigned value when buf_len is 0.
C30_DestinationBound ==
  ret.op = "get_line2" =>
    /\ ret.buf_len = 0 => crash # "ub"
    /\ crash = "none" /\ ret.rv = 1 =>
         Len(ret.data) + (IF ret.nul THEN 1 ELSE 0) <= ret.buf_len

====
